---- MODULE Spec2Model ----
(***************************************************************************)
(* Model of the go-slo job-status persistence adapter (package repo,       *)
(* database/sql + pgx flavour) and of the common error helpers it uses.    *)
(*                                                                         *)
(* Value encoding.  Every column value is an integer so that values can be *)
(* compared whatever position they end up in:                              *)
(*   text columns      0 is the empty string "", n > 0 is a non-empty text *)
(*   JobStatusTimestamp  seconds since the epoch (UTC, second precision)   *)
(*   BusinessDate      as internal.Date: a day number; as time.Time and in *)
(*                     the `date` column: the second of that day's UTC     *)
(*                     midnight                                            *)
(*   Null              SQL NULL (never a Go string or time.Time)           *)
(***************************************************************************)
EXTENDS Integers, Sequences, FiniteSets, TLC

(***************************************************************************)
(* Bounds of the model.                                                    *)
(***************************************************************************)
\* the most rows the table holds
MaxRows == 2

\* the most Open calls of a behaviour
MaxOpens == 2

\* the most WrapError layers around one error
MaxWraps == 2

\* the most fields a filter set of the builder runs holds
MaxFilterFields == 3

\* the most callers that use the adapter at the same time
MaxCallers == 3

(***************************************************************************)
(* Domain values.                                                          *)
(***************************************************************************)
Null == 0 - 1

DaySeconds == 86400

\* the clock reading every validation in a behaviour compares against
Now == 3 * DaySeconds

\* internal.Date.AsTime: the date as a time.Time at UTC midnight
AsTime(d) == d * DaySeconds

\* internal.NewDateFromTime: the calendar date (UTC) of a time.Time
NewDateFromTime(t) == t \div DaySeconds

\* the fixed set of status codes the domain accepts
ValidJobStatusCodes == {1, 2}

\* status codes outside the valid set, as an out-of-band writer may store
UnknownStatusCodes == {9}

\* the values the records fed to the adapter are made of
AppIds == {1}
JobIds == {1, 2}
RunIds == {0, 1}
HostIds == {0}
Timestamps == {2 * DaySeconds + 1}
Dates == {1, 2}

\* jobStatus.JobStatus: the seven fields of the domain record
JobStatusFields ==
    {"ApplicationId", "JobId", "JobStatusCode", "JobStatusTimestamp",
     "BusinessDate", "RunId", "HostId"}

\* the invariants NewJobStatus enforces on the values of a transfer object
isUsable(dto) ==
    /\ dto.AppId > 0
    /\ dto.JobId > 0
    /\ dto.JobSt \in ValidJobStatusCodes
    /\ dto.JobTs > 0
    /\ dto.JobTs <= Now
    /\ dto.BusDt > 0
    /\ AsTime(dto.BusDt) <= Now
    /\ dto.BusDt <= NewDateFromTime(dto.JobTs)
    /\ dto.RunId >= 0
    /\ dto.HstId >= 0

\* the valid JobStatus records the model feeds to the adapter: the runs of
\* job 1 carry a run id, those of the other jobs leave it empty
JobStatuses ==
    { js \in [ApplicationId : AppIds, JobId : JobIds,
              JobStatusCode : ValidJobStatusCodes,
              JobStatusTimestamp : Timestamps, BusinessDate : Dates,
              RunId : RunIds, HostId : HostIds] :
        /\ js.BusinessDate <= NewDateFromTime(js.JobStatusTimestamp)
        /\ js.RunId # 0 <=> js.JobId = 1 }

(***************************************************************************)
(* common/errors.go                                                        *)
(***************************************************************************)
ErrcdDomainProps == "PropsError"
ErrcdRepoScan == "ScanError"
ErrcdRepoDupeRow == "DuplicateRowError"
ErrcdRepoConnException == "ConnectionExceptionError"
ErrcdRepoOther == "RepoOtherError"
ErrcdRepoNoDsn == "NoDsnError"
ErrcdRepoInvalidQuery == "InvalidQueryError"

\* the nil error
NilError == [kind |-> "nil"]

\* payloads of a CommonError (CommonError.Data)
NoData == [kind |-> "nil"]
RowsData == [kind |-> "rows"]
JobStatusData(js) == [kind |-> "jobStatus", jobStatus |-> js]
JobIdData(jobId) == [kind |-> "key", jobId |-> jobId]
JobIdBusDtData(jobId, busDt) == [kind |-> "key", jobId |-> jobId, busDt |-> busDt]
FilterData(f) == [kind |-> "filter", filter |-> f]

\* what runtime.Caller(1) gives when it cannot tell the caller (ok is false)
NoCaller == ""

\* a NewCommonError that fills the error in only when the caller is known
NewCommonError_OnlyWithCaller(caller, e, code, data) ==
    LET newErr == [kind |-> "CommonError", Code |-> "", Err |-> NilError, Data |-> NoData,
                   Origin |-> "", Wraps |-> <<>>]
    IN  IF caller # NoCaller
        THEN [newErr EXCEPT !.Code = code, !.Err = e, !.Data = data, !.Origin = caller]
        ELSE newErr

\* NewCommonError: Code, Err and Data are the arguments; Origin is the
\* caller runtime.Caller(1) reports (FileName, FuncName, LineNo), left at
\* its zero value when the caller is not known; Wraps lists the
\* fmt.Errorf("<caller> <- %w") layers WrapError has put around the error,
\* the outermost first
NewCommonError(caller, e, code, data) ==
    LET newErr == [kind |-> "CommonError", Code |-> code, Err |-> e, Data |-> data,
                   Origin |-> "", Wraps |-> <<>>]
    IN  IF caller # NoCaller
        THEN [newErr EXCEPT !.Origin = caller]
        ELSE newErr

\* the text WrapError puts in front of the error it wraps
WrapSite(caller) == IF caller = NoCaller THEN "unknown caller" ELSE caller

\* a WrapError that returns a new error carrying only the caller and the text
WrapError_Flatten(caller, e) == [kind |-> "wrapped", Site |-> caller, Err |-> NilError]

\* WrapError: one more provenance layer, the caller of WrapError, around
\* err, which stays reachable through Unwrap
WrapError(caller, e) ==
    IF e.kind = "CommonError" THEN [e EXCEPT !.Wraps = <<WrapSite(caller)>> \o @]
    ELSE [kind |-> "wrapped", Site |-> WrapSite(caller), Err |-> e]

\* errors.Unwrap: the error one layer further in, or nil
Unwrap(e) ==
    CASE e.kind = "CommonError" /\ e.Wraps # <<>> -> [e EXCEPT !.Wraps = Tail(@)]
      [] e.kind = "CommonError" -> e.Err
      [] e.kind = "wrapped" -> e.Err
      [] OTHER -> NilError

\* a raw error of the driver or of database/sql, not a CommonError
RawError(name) == [kind |-> "raw", name |-> name]

\* a classifier that knows no kind but the fallback
PgErrToCommon_AllOther(e) == ErrcdRepoOther

\* internal.PgErrToCommon: the common error code of a storage-call failure
PgErrToCommon(e) ==
    CASE e.name = "pg23505" -> ErrcdRepoDupeRow
      [] e.name = "connection" -> ErrcdRepoConnException
      [] OTHER -> ErrcdRepoOther

(***************************************************************************)
(* The "JobStatus" table and the statements of NewRepoDB.                  *)
(***************************************************************************)
\* the columns of the table, in the order of the DDL
Columns ==
    <<"ApplicationId", "JobId", "JobStatusCode", "JobStatusTimestamp",
      "BusinessDate", "RunId", "HostId">>

ColumnSet == {Columns[i] : i \in 1..Len(Columns)}

\* the NOT NULL columns of the DDL
NotNullColumns ==
    {"ApplicationId", "JobId", "JobStatusCode", "JobStatusTimestamp", "BusinessDate"}

\* the key of the prose definition of a duplicate row, JobStatusCode included
PrimaryKey_WithStatusCode ==
    {"JobId", "BusinessDate", "JobStatusTimestamp", "ApplicationId", "JobStatusCode"}

\* CONSTRAINT "JobStatus_Primary" PRIMARY KEY (...)
PrimaryKey == {"JobId", "BusinessDate", "JobStatusTimestamp", "ApplicationId"}

\* what a column of type `date` keeps of a time value: the UTC midnight of its day
PgDate(t) == IF t = Null THEN Null ELSE (t \div DaySeconds) * DaySeconds

\* the value a column stores for a parameter value, by the column's type
Coerce(col, v) == IF col = "BusinessDate" THEN PgDate(v) ELSE v

\* sqlInsert: the column list, and the placeholder number of each VALUES slot
sqlInsertColumns ==
    <<"ApplicationId", "JobId", "JobStatusCode", "JobStatusTimestamp",
      "BusinessDate", "RunId", "HostId">>

sqlInsertValues == <<1, 2, 3, 4, 5, 6, 7>>

\* a projection that lists BusinessDate before JobStatusTimestamp
sqlSelect_DateBeforeTimestamp ==
    <<"ApplicationId", "JobId", "JobStatusCode", "BusinessDate",
      "JobStatusTimestamp", "RunId", "HostId">>

\* sqlSelect: the projection
sqlSelect ==
    <<"ApplicationId", "JobId", "JobStatusCode", "JobStatusTimestamp",
      "BusinessDate", "RunId", "HostId">>

\* a predicate that compares the wrong column: WHERE "ApplicationId" = $1
sqlWhereJobId_WrongColumn == <<[col |-> "ApplicationId", param |-> 1]>>

\* sqlWhereJobId: WHERE "JobId" = $1
sqlWhereJobId == <<[col |-> "JobId", param |-> 1]>>

\* sqlWhereJobIdBusDt: WHERE "JobId" = $1 AND "BusinessDate" = $2
sqlWhereJobIdBusDt ==
    <<[col |-> "JobId", param |-> 1], [col |-> "BusinessDate", param |-> 2]>>

\* the position of a column in a column list
IndexOf(seq, x) == CHOOSE i \in 1..Len(seq) : seq[i] = x

\* the row an INSERT with the given column list, VALUES slots and parameters
\* describes; a column the statement does not name is NULL
InsertedRow(cols, slots, params) ==
    [c \in ColumnSet |->
        IF \E i \in 1..Len(cols) : cols[i] = c
        THEN Coerce(c, params[slots[IndexOf(cols, c)]])
        ELSE Null]

\* two rows collide on the primary key
SameKey(r1, r2) == \A c \in PrimaryKey : r1[c] = r2[c]

\* a table without its primary key: an INSERT never collides
PgInsert_NoUnique(tbl, row) ==
    IF \E c \in NotNullColumns : row[c] = Null
    THEN [sqlstate |-> "pg23502", table |-> tbl]
    ELSE [sqlstate |-> "", table |-> tbl \cup {row}]

\* the outcome of executing an INSERT against a table the server reaches:
\* the SQLSTATE of the failure ("" on success) and the table afterwards
PgInsert(tbl, row) ==
    IF \E c \in NotNullColumns : row[c] = Null
    THEN [sqlstate |-> "pg23502", table |-> tbl]
    ELSE IF \E r \in tbl : SameKey(r, row)
    THEN [sqlstate |-> "pg23505", table |-> tbl]
    ELSE [sqlstate |-> "", table |-> tbl \cup {row}]

\* a row satisfies a conjunctive equality predicate under the given arguments
Matches(row, where, args) ==
    \A i \in 1..Len(where) :
        /\ row[where[i].col] # Null
        /\ row[where[i].col] = Coerce(where[i].col, args[where[i].param])

\* the rows of the table a predicate selects
Selected(tbl, where, args) == {r \in tbl : Matches(r, where, args)}

\* a row as the cursor delivers it: the projected columns, in projection order
Project(row, projection) == [i \in 1..Len(projection) |-> row[projection[i]]]

\* the orders in which the server may deliver a set of rows (no ORDER BY)
Orderings(S) ==
    {s \in [1..Cardinality(S) -> S] : \A i, j \in 1..Cardinality(S) : s[i] = s[j] => i = j}

(***************************************************************************)
(* The mapper: domainToDb, dbToDomain, rowsToDomain.                       *)
(***************************************************************************)
ZeroJobStatus ==
    [ApplicationId |-> 0, JobId |-> 0, JobStatusCode |-> 0, JobStatusTimestamp |-> 0,
     BusinessDate |-> 0, RunId |-> 0, HostId |-> 0]

\* jobStatus.NewJobStatus: the record of a transfer object that passes the
\* domain invariants, or the props error
NewJobStatus(dto) ==
    IF isUsable(dto)
    THEN [jobStatus |->
            [ApplicationId |-> dto.AppId, JobId |-> dto.JobId,
             JobStatusCode |-> dto.JobSt, JobStatusTimestamp |-> dto.JobTs,
             BusinessDate |-> dto.BusDt, RunId |-> dto.RunId, HostId |-> dto.HstId],
          err |-> NilError]
    ELSE [jobStatus |-> ZeroJobStatus,
          err |-> NewCommonError("NewJobStatus", RawError("ErrDomainProps"), ErrcdDomainProps,
                                 [kind |-> "dto", dto |-> dto])]

\* a domainToDb that passes NULL for an optional field that is empty
domainToDb_NullForEmpty(jobStatus) ==
    << jobStatus.ApplicationId,
       jobStatus.JobId,
       jobStatus.JobStatusCode,
       jobStatus.JobStatusTimestamp,
       AsTime(jobStatus.BusinessDate),
       IF jobStatus.RunId = 0 THEN Null ELSE jobStatus.RunId,
       IF jobStatus.HostId = 0 THEN Null ELSE jobStatus.HostId >>

\* domainToDb: the values to insert, in the order the statements expect
domainToDb(jobStatus) ==
    << jobStatus.ApplicationId,
       jobStatus.JobId,
       jobStatus.JobStatusCode,
       jobStatus.JobStatusTimestamp,
       AsTime(jobStatus.BusinessDate),
       jobStatus.RunId,
       jobStatus.HostId >>

\* rows.Scan(&appId, &jobId, &jobSt, &jobTs, &busDt, &runId, &hstId): the
\* destinations, in argument order
ScanDest == <<"appId", "jobId", "jobSt", "jobTs", "busDt", "runId", "hstId">>

\* Scan succeeds when the row has one column per destination and no column
\* is NULL (no destination is a pointer or a sql.Null type)
ScanOk(cols) ==
    /\ Len(cols) = Len(ScanDest)
    /\ \A i \in 1..Len(cols) : cols[i] # Null

\* the value Scan leaves in a destination
Scanned(cols, dest) == cols[IndexOf(ScanDest, dest)]

\* a dbToDomain that crosses the two optional fields
dbToDomain_CrossedOptionals(cols) ==
    IF ~ScanOk(cols)
    THEN [jobStatus |-> ZeroJobStatus,
          err |-> NewCommonError("dbToDomain", RawError("scan"), ErrcdRepoScan, RowsData)]
    ELSE NewJobStatus(
            [AppId |-> Scanned(cols, "appId"),
             JobId |-> Scanned(cols, "jobId"),
             JobSt |-> Scanned(cols, "jobSt"),
             JobTs |-> Scanned(cols, "jobTs"),
             BusDt |-> NewDateFromTime(Scanned(cols, "busDt")),
             RunId |-> Scanned(cols, "hstId"),
             HstId |-> Scanned(cols, "runId")])

\* a dbToDomain that goes on to the constructor with what Scan left behind
dbToDomain_ValidateAnyway(cols) ==
    IF ~ScanOk(cols)
    THEN NewJobStatus([AppId |-> 0, JobId |-> 0, JobSt |-> 0, JobTs |-> 0,
                       BusDt |-> 0, RunId |-> 0, HstId |-> 0])
    ELSE NewJobStatus(
            [AppId |-> Scanned(cols, "appId"),
             JobId |-> Scanned(cols, "jobId"),
             JobSt |-> Scanned(cols, "jobSt"),
             JobTs |-> Scanned(cols, "jobTs"),
             BusDt |-> NewDateFromTime(Scanned(cols, "busDt")),
             RunId |-> Scanned(cols, "runId"),
             HstId |-> Scanned(cols, "hstId")])

\* a dbToDomain that builds the record from the scanned values as they are
dbToDomain_TrustRow(cols) ==
    IF ~ScanOk(cols)
    THEN [jobStatus |-> ZeroJobStatus,
          err |-> NewCommonError("dbToDomain", RawError("scan"), ErrcdRepoScan, RowsData)]
    ELSE [jobStatus |->
            [ApplicationId |-> Scanned(cols, "appId"),
             JobId |-> Scanned(cols, "jobId"),
             JobStatusCode |-> Scanned(cols, "jobSt"),
             JobStatusTimestamp |-> Scanned(cols, "jobTs"),
             BusinessDate |-> NewDateFromTime(Scanned(cols, "busDt")),
             RunId |-> Scanned(cols, "runId"),
             HostId |-> Scanned(cols, "hstId")],
          err |-> NilError]

\* dbToDomain: scan the current row of the cursor and build a JobStatus
dbToDomain(cols) ==
    IF ~ScanOk(cols)
    THEN [jobStatus |-> ZeroJobStatus,
          err |-> NewCommonError("dbToDomain", RawError("scan"), ErrcdRepoScan, RowsData)]
    ELSE NewJobStatus(
            [AppId |-> Scanned(cols, "appId"),
             JobId |-> Scanned(cols, "jobId"),
             JobSt |-> Scanned(cols, "jobSt"),
             JobTs |-> Scanned(cols, "jobTs"),
             BusDt |-> NewDateFromTime(Scanned(cols, "busDt")),
             RunId |-> Scanned(cols, "runId"),
             HstId |-> Scanned(cols, "hstId")])

RECURSIVE rowsToDomainFrom_SkipBadRow(_, _, _)
\* a loop that drops the rows dbToDomain cannot convert and goes on
rowsToDomainFrom_SkipBadRow(rows, i, result) ==
    IF i > Len(rows)
    THEN [data |-> result, err |-> NilError]
    ELSE LET one == dbToDomain(rows[i])
         IN  IF one.err.kind # "nil"
             THEN rowsToDomainFrom_SkipBadRow(rows, i + 1, result)
             ELSE rowsToDomainFrom_SkipBadRow(rows, i + 1, Append(result, one.jobStatus))

RECURSIVE rowsToDomainFrom(_, _, _)
\* the loop of rowsToDomain from row i on, with the result built so far
rowsToDomainFrom(rows, i, result) ==
    IF i > Len(rows)
    THEN [data |-> result, err |-> NilError]
    ELSE LET one == dbToDomain(rows[i])
         IN  IF one.err.kind # "nil"
             THEN [data |-> <<>>, err |-> WrapError("rowsToDomain", one.err)]
             ELSE rowsToDomainFrom(rows, i + 1, Append(result, one.jobStatus))

\* a rowsToDomain that reports an empty result as a not-found error
rowsToDomain_NotFoundError(rows) ==
    IF Len(rows) = 0
    THEN [data |-> <<>>,
          err |-> NewCommonError("rowsToDomain", RawError("sql.ErrNoRows"), ErrcdRepoOther, NoData)]
    ELSE rowsToDomainFrom(rows, 1, <<>>)

\* rowsToDomain: convert the rows rows.Next() delivers, stopping at the
\* first row dbToDomain cannot convert
rowsToDomain(rows) == rowsToDomainFrom(rows, 1, <<>>)

(***************************************************************************)
(* The Predicate Builder of GetByQuery.                                    *)
(***************************************************************************)
\* a rule that settles for any one of the four anchor fields
IsUsableQuery_AnyAnchor(filter) ==
    \/ ("ApplicationId" \in DOMAIN filter \/ "JobId" \in DOMAIN filter)
    \/ ("JobStatusTimestamp" \in DOMAIN filter \/ "BusinessDate" \in DOMAIN filter)

\* the usability rule: (AppId || JobId) && (JobTs || BusDt) are present
IsUsableQuery(filter) ==
    /\ ("ApplicationId" \in DOMAIN filter \/ "JobId" \in DOMAIN filter)
    /\ ("JobStatusTimestamp" \in DOMAIN filter \/ "BusinessDate" \in DOMAIN filter)

\* the present fields of a filter set, in canonical (column) order
PresentFields(filter) == SelectSeq(Columns, LAMBDA c : c \in DOMAIN filter)

\* the argument a filter value is passed as (a date goes as a time.Time)
FilterArg(col, v) == IF col = "BusinessDate" THEN AsTime(v) ELSE v

\* a builder that numbers its placeholders from 0
buildWhere_FromZero(filter) ==
    LET present == PresentFields(filter)
    IN  [where  |-> [i \in 1..Len(present) |-> [col |-> present[i], param |-> i - 1]],
         values |-> [i \in 1..Len(present) |-> FilterArg(present[i], filter[present[i]])]]

\* a builder that leaves the last present field out of the predicate
buildWhere_DropLast(filter) ==
    LET present == PresentFields(filter)
        kept == IF Len(present) > 1 THEN SubSeq(present, 1, Len(present) - 1) ELSE present
    IN  [where  |-> [i \in 1..Len(kept) |-> [col |-> kept[i], param |-> i]],
         values |-> [i \in 1..Len(kept) |-> FilterArg(kept[i], filter[kept[i]])]]

\* buildWhere: one equality term per present field with placeholders
\* numbered from 1, and the values in the same order
buildWhere(filter) ==
    LET present == PresentFields(filter)
    IN  [where  |-> [i \in 1..Len(present) |-> [col |-> present[i], param |-> i]],
         values |-> [i \in 1..Len(present) |-> FilterArg(present[i], filter[present[i]])]]

\* the filter set a caller has filled by inserting these (field, value)
\* pairs one after the other
FilterSetOf(entries) ==
    [f \in {entries[i].field : i \in 1..Len(entries)} |->
        entries[CHOOSE i \in 1..Len(entries) :
                    /\ entries[i].field = f
                    /\ \A j \in (i + 1)..Len(entries) : entries[j].field # f].value]

\* a builder that takes the fields in the order they were inserted
buildWhereOfEntries_InsertionOrder(entries) ==
    [where  |-> [i \in 1..Len(entries) |-> [col |-> entries[i].field, param |-> i]],
     values |-> [i \in 1..Len(entries) |-> FilterArg(entries[i].field, entries[i].value)]]

\* the build from a filter set filled in a given order
buildWhereOfEntries(entries) == buildWhere(FilterSetOf(entries))

(***************************************************************************)
(* The state: the repoDB struct, the database behind it, and the last call *)
(* with what it returned.                                                  *)
(***************************************************************************)
\* a nil pointer or interface value
NilRef == [kind |-> "nil"]

\* the concurrent callers of the adapter
Threads == 1..MaxCallers

VARIABLES
    DSN,      \* repoDB.DSN: "" (not set), "bad" (sql.Open rejects it) or "ok"
    DB,       \* repoDB.DB: 0 is nil, n > 0 the handle the n-th Open call made
    live,     \* the handles sql.Open returned that have not been closed
    opens,    \* the number of Open calls so far
    table,    \* the rows of "JobStatus"
    added,    \* the records for which Add returned nil
    op,       \* the last call and its arguments
    ret,      \* the records the last call returned (<<>> for nil)
    err,      \* the error the last call returned
    calls,    \* the calls the last call made on database/sql, in order
    fault,    \* what the driver did to the storage call of the last call
    pc,       \* "run", or "panic" once a call has aborted the process
    conv,     \* the mapper or the builder applied on its own: input and outputs
    inflight, \* the calls of concurrent callers: each caller's call and its progress
    boot      \* modinit.Init: its position, the messages it logged, what it built and returned

vars == <<DSN, DB, live, opens, table, added, op, ret, err, calls, fault, pc, conv,
          inflight, boot>>

repoVars == <<DSN, DB, live, opens, table, added, op, ret, err, calls, fault, pc,
              inflight, boot>>

\* NewRepoDB(DSN): the handle is nil; the database starts empty
Init ==
    /\ DSN \in {"", "bad", "ok"}
    /\ DB = 0
    /\ live = {}
    /\ opens = 0
    /\ table = {}
    /\ added = {}
    /\ op = [name |-> "NewRepoDB"]
    /\ ret = <<>>
    /\ err = NilError
    /\ calls = <<>>
    /\ fault = "none"
    /\ pc = "run"
    /\ conv = [stage |-> "idle"]
    /\ inflight = [t \in Threads |-> [pc |-> "idle"]]
    /\ boot = [pc |-> "start", log |-> <<>>, uc |-> NilRef, ctrl |-> NilRef, ret |-> NilRef]

\* a call on a nil *sql.DB dereferences nil: the process panics and the call
\* returns nothing
NilHandlePanic ==
    /\ pc' = "panic"
    /\ ret' = <<>>
    /\ err' = NilError
    /\ fault' = "none"
    /\ UNCHANGED table

\* an Open that stores whatever sql.Open returned before it looks at the error
Open_HandleOnFailure ==
    /\ pc = "run"
    /\ opens < MaxOpens
    /\ opens' = opens + 1
    /\ op' = [name |-> "Open"]
    /\ ret' = <<>>
    /\ fault' = "none"
    /\ IF DSN = ""
       THEN /\ err' = NewCommonError("Open", RawError("ErrRepoNoDsn"), ErrcdRepoNoDsn, NoData)
            /\ calls' = <<>>
            /\ UNCHANGED <<DB, live>>
       ELSE IF DSN = "bad"
       THEN /\ err' = NewCommonError("Open", RawError("sql.Open"), ErrcdRepoConnException, NoData)
            /\ calls' = <<"sql.Open">>
            /\ DB' = opens + 1
            /\ UNCHANGED live
       ELSE /\ DB' = opens + 1
            /\ live' = live \cup {opens + 1}
            /\ err' = NilError
            /\ calls' = <<"sql.Open">>
    /\ UNCHANGED <<DSN, table, added, pc, conv, inflight, boot>>

\* Open: connect to the database the DSN describes
Open ==
    /\ pc = "run"
    /\ opens < MaxOpens
    /\ opens' = opens + 1
    /\ op' = [name |-> "Open"]
    /\ ret' = <<>>
    /\ fault' = "none"
    /\ IF DSN = ""
       THEN /\ err' = NewCommonError("Open", RawError("ErrRepoNoDsn"), ErrcdRepoNoDsn, NoData)
            /\ calls' = <<>>
            /\ UNCHANGED <<DB, live>>
       ELSE IF DSN = "bad"
       THEN /\ err' = NewCommonError("Open", RawError("sql.Open"), ErrcdRepoConnException, NoData)
            /\ calls' = <<"sql.Open">>
            /\ UNCHANGED <<DB, live>>
       ELSE /\ DB' = opens + 1
            /\ live' = live \cup {opens + 1}
            /\ err' = NilError
            /\ calls' = <<"sql.Open">>
    /\ UNCHANGED <<DSN, table, added, pc, conv, inflight, boot>>

\* a Close that calls DB.Close() without looking at the handle
Close_Unguarded ==
    /\ pc = "run"
    /\ op' = [name |-> "Close"]
    /\ ret' = <<>>
    /\ fault' = "none"
    /\ calls' = <<"Close">>
    /\ live' = live \ {DB}
    /\ IF DB \in live
       THEN err' \in {NilError, RawError("close")}
       ELSE err' = NilError
    /\ pc' = IF DB = 0 THEN "panic" ELSE pc
    /\ UNCHANGED <<DSN, DB, opens, table, added, conv, inflight, boot>>

\* a Close that forgets the handle once it has closed it
Close_ResetHandle ==
    /\ pc = "run"
    /\ op' = [name |-> "Close"]
    /\ ret' = <<>>
    /\ fault' = "none"
    /\ IF DB # 0
       THEN /\ calls' = <<"Close">>
            /\ live' = live \ {DB}
            /\ DB' = 0
            /\ IF DB \in live
               THEN err' \in {NilError, RawError("close")}
               ELSE err' = NilError
       ELSE /\ calls' = <<>>
            /\ err' = NilError
            /\ UNCHANGED <<DB, live>>
    /\ UNCHANGED <<DSN, opens, table, added, pc, conv, inflight, boot>>

\* Close: close the handle when there is one; DB.Close is idempotent and
\* may report the error of closing a driver connection
Close ==
    /\ pc = "run"
    /\ op' = [name |-> "Close"]
    /\ ret' = <<>>
    /\ fault' = "none"
    /\ IF DB # 0
       THEN /\ calls' = <<"Close">>
            /\ live' = live \ {DB}
            /\ IF DB \in live
               THEN err' \in {NilError, RawError("close")}
               ELSE err' = NilError
       ELSE /\ calls' = <<>>
            /\ err' = NilError
            /\ UNCHANGED live
    /\ UNCHANGED <<DSN, DB, opens, table, added, pc, conv, inflight, boot>>

\* the faults the driver can answer an Exec or a Query with instead of
\* running the statement
CallFaults == {"connection", "other"}

\* an error branch that treats a duplicate key as nothing to report
AddError_IgnoreDuplicate(e, jobStatus) ==
    IF e.name = "pg23505"
    THEN NilError
    ELSE NewCommonError("Add", e, PgErrToCommon(e), JobStatusData(jobStatus))

\* an error branch that leaves the record out of the error
AddError_NoPayload(e, jobStatus) == NewCommonError("Add", e, PgErrToCommon(e), NoData)

\* the error branch of Add: classify the error of Exec and return it with
\* the record as Data
AddError(e, jobStatus) == NewCommonError("Add", e, PgErrToCommon(e), JobStatusData(jobStatus))

\* an Add that issues the insert once more when the first attempt fails on
\* the connection
Add_RetryOnConnection(jobStatus) ==
    /\ pc = "run"
    /\ op' = [name |-> "Add", jobStatus |-> jobStatus]
    /\ ret' = <<>>
    /\ IF DB = 0
       THEN calls' = <<"Exec">> /\ NilHandlePanic /\ UNCHANGED added
       ELSE /\ pc' = pc
            /\ IF DB \notin live
               THEN /\ fault' = "closed"
                    /\ calls' = <<"Exec">>
                    /\ err' = AddError(RawError("closed"), jobStatus)
                    /\ UNCHANGED <<table, added>>
               ELSE \/ \E f \in CallFaults :
                        /\ fault' = f
                        /\ calls' = IF f = "connection" THEN <<"Exec", "Exec">> ELSE <<"Exec">>
                        /\ err' = AddError(RawError(f), jobStatus)
                        /\ UNCHANGED <<table, added>>
                    \/ LET row == InsertedRow(sqlInsertColumns, sqlInsertValues,
                                              domainToDb(jobStatus))
                           res == PgInsert(table, row)
                       IN  /\ Cardinality(res.table) <= MaxRows
                           /\ fault' = "none"
                           /\ calls' = <<"Exec">>
                           /\ table' = res.table
                           /\ IF res.sqlstate # ""
                              THEN /\ err' = AddError(RawError(res.sqlstate), jobStatus)
                                   /\ UNCHANGED added
                              ELSE /\ err' = NilError
                                   /\ added' = added \cup {jobStatus}
    /\ UNCHANGED <<DSN, DB, live, opens, conv, inflight, boot>>

\* Add: insert a JobStatus
Add(jobStatus) ==
    /\ pc = "run"
    /\ op' = [name |-> "Add", jobStatus |-> jobStatus]
    /\ ret' = <<>>
    /\ calls' = <<"Exec">>
    /\ IF DB = 0
       THEN NilHandlePanic /\ UNCHANGED added
       ELSE /\ pc' = pc
            /\ IF DB \notin live
               THEN /\ fault' = "closed"
                    /\ err' = AddError(RawError("closed"), jobStatus)
                    /\ UNCHANGED <<table, added>>
               ELSE \/ \E f \in CallFaults :
                        /\ fault' = f
                        /\ err' = AddError(RawError(f), jobStatus)
                        /\ UNCHANGED <<table, added>>
                    \/ LET row == InsertedRow(sqlInsertColumns, sqlInsertValues,
                                              domainToDb(jobStatus))
                           res == PgInsert(table, row)
                       IN  /\ Cardinality(res.table) <= MaxRows
                           /\ fault' = "none"
                           /\ table' = res.table
                           /\ IF res.sqlstate # ""
                              THEN /\ err' = AddError(RawError(res.sqlstate), jobStatus)
                                   /\ UNCHANGED added
                              ELSE /\ err' = NilError
                                   /\ added' = added \cup {jobStatus}
    /\ UNCHANGED <<DSN, DB, live, opens, conv, inflight, boot>>

\* the cursors a Query can hand to rowsToDomain: the selected rows in some
\* order, all of them, or, when the cursor breaks while it is read, those
\* delivered before rows.Next() returned false
Cursors(where, args, f) ==
    LET full == {[i \in DOMAIN s |-> Project(s[i], sqlSelect)] :
                    s \in Orderings(Selected(table, where, args))}
    IN  IF f = "cursor"
        THEN {SubSeq(c, 1, k) : c \in full, k \in 0..Cardinality(Selected(table, where, args))}
        ELSE full

\* the body the read operations share: Query, then rowsToDomain on the
\* cursor; data is the payload of the error of a failed Query
QueryAndConvert(caller, where, args, data) ==
    /\ calls' = <<"Query">>
    /\ IF DB = 0
       THEN NilHandlePanic
       ELSE /\ pc' = pc
            /\ UNCHANGED table
            /\ IF DB \notin live
               THEN /\ fault' = "closed"
                    /\ ret' = <<>>
                    /\ err' = NewCommonError(caller, RawError("closed"),
                                   PgErrToCommon(RawError("closed")), data)
               ELSE \/ \E f \in CallFaults :
                        /\ fault' = f
                        /\ ret' = <<>>
                        /\ err' = NewCommonError(caller, RawError(f), PgErrToCommon(RawError(f)), data)
                    \/ \E f \in {"none", "cursor"} :
                       \E rows \in Cursors(where, args, f) :
                        LET all == rowsToDomain(rows)
                        IN  /\ fault' = f
                            /\ IF all.err.kind # "nil"
                               THEN /\ ret' = <<>>
                                    /\ err' = WrapError(caller, all.err)
                               ELSE /\ ret' = all.data
                                    /\ err' = NilError

\* GetByJobId: the JobStatus records of a job id
GetByJobId(jobId) ==
    /\ pc = "run"
    /\ op' = [name |-> "GetByJobId", jobId |-> jobId]
    /\ QueryAndConvert("GetByJobId", sqlWhereJobId, <<jobId>>, JobIdData(jobId))
    /\ UNCHANGED <<DSN, DB, live, opens, added, conv, inflight, boot>>

\* GetByJobIdBusinessDate: the JobStatus records of a job id and business date
GetByJobIdBusinessDate(jobId, busDt) ==
    /\ pc = "run"
    /\ op' = [name |-> "GetByJobIdBusinessDate", jobId |-> jobId, busDt |-> busDt]
    /\ QueryAndConvert("GetByJobIdBusinessDate", sqlWhereJobIdBusDt, <<jobId, AsTime(busDt)>>,
                       JobIdBusDtData(jobId, busDt))
    /\ UNCHANGED <<DSN, DB, live, opens, added, conv, inflight, boot>>

\* a GetByQuery that runs the query before it looks at the filter set
GetByQuery_QueryFirst(filter) ==
    /\ pc = "run"
    /\ op' = [name |-> "GetByQuery", filter |-> filter]
    /\ LET built == buildWhere(filter)
       IN  IF ~IsUsableQuery(filter) /\ DB \in live
           THEN /\ ret' = <<>>
                /\ err' = NewCommonError("GetByQuery", RawError("ErrRepoInvalidQuery"),
                               ErrcdRepoInvalidQuery, FilterData(filter))
                /\ calls' = <<"Query">>
                /\ fault' = "none"
                /\ UNCHANGED <<table, pc>>
           ELSE QueryAndConvert("GetByQuery", built.where, built.values, FilterData(filter))
    /\ UNCHANGED <<DSN, DB, live, opens, added, conv, inflight, boot>>

\* GetByQuery: check the filter set, then query with the built predicate
GetByQuery(filter) ==
    /\ pc = "run"
    /\ op' = [name |-> "GetByQuery", filter |-> filter]
    /\ IF ~IsUsableQuery(filter)
       THEN /\ ret' = <<>>
            /\ err' = NewCommonError("GetByQuery", RawError("ErrRepoInvalidQuery"),
                           ErrcdRepoInvalidQuery, FilterData(filter))
            /\ calls' = <<>>
            /\ fault' = "none"
            /\ UNCHANGED <<table, pc>>
       ELSE LET built == buildWhere(filter)
            IN  QueryAndConvert("GetByQuery", built.where, built.values, FilterData(filter))
    /\ UNCHANGED <<DSN, DB, live, opens, added, conv, inflight, boot>>

(***************************************************************************)
(* The rest of the world: another client of the database.                  *)
(***************************************************************************)
\* the records the other client starts its rows from
OutOfBandBase ==
    {js \in JobStatuses :
        /\ js.ApplicationId = 1
        /\ js.JobStatusCode = 1
        /\ js.JobStatusTimestamp = 2 * DaySeconds + 1
        /\ js.BusinessDate = 1
        /\ js.HostId = 0}

\* rows the DDL admits and Add never writes: a NULL RunId, an unknown status code
OutOfBandRows ==
    LET base(js) == InsertedRow(Columns, sqlInsertValues, domainToDb(js))
    IN  {[base(js) EXCEPT !["RunId"] = Null] : js \in OutOfBandBase}
        \cup {[base(js) EXCEPT !["JobStatusCode"] = c] :
                 js \in OutOfBandBase, c \in UnknownStatusCodes}

\* the other client inserts a row
OutOfBandInsert(row) ==
    LET res == PgInsert(table, row)
    IN  /\ pc = "run"
        /\ res.sqlstate = ""
        /\ Cardinality(res.table) <= MaxRows
        /\ table' = res.table
        /\ op' = [name |-> "OutOfBandInsert"]
        /\ ret' = <<>>
        /\ err' = NilError
        /\ calls' = <<>>
        /\ fault' = "none"
        /\ UNCHANGED <<DSN, DB, live, opens, added, pc, conv, inflight, boot>>

(***************************************************************************)
(* The mapper on its own, as a test drives it without a database.          *)
(***************************************************************************)
\* domain -> row
MapDomainToDb(jobStatus) ==
    /\ conv.stage = "idle"
    /\ conv' = [stage |-> "row", jobStatus |-> jobStatus, row |-> domainToDb(jobStatus)]
    /\ UNCHANGED repoVars

\* row -> domain, on the row the first step made
MapDbToDomain ==
    /\ conv.stage = "row"
    /\ conv' = [stage |-> "domain", jobStatus |-> conv.jobStatus, row |-> conv.row,
                out |-> dbToDomain(conv.row)]
    /\ UNCHANGED repoVars

(***************************************************************************)
(* Specifications.                                                         *)
(***************************************************************************)
\* the adapter with its fixed-predicate reads
Next ==
    \/ Open
    \/ \E js \in JobStatuses : Add(js)
    \/ \E jobId \in JobIds : GetByJobId(jobId)
    \/ \E jobId \in JobIds, busDt \in Dates : GetByJobIdBusinessDate(jobId, busDt)
    \/ \E row \in OutOfBandRows : OutOfBandInsert(row)

Spec == Init /\ [][Next]_vars

\* the valid records the mapper is driven with: empty and non-empty optional
\* fields, business dates on and before the day of the timestamp
MapperJobStatuses ==
    { js \in [ApplicationId : AppIds, JobId : JobIds,
              JobStatusCode : ValidJobStatusCodes,
              JobStatusTimestamp : {day * DaySeconds + sec : day \in Dates, sec \in {0, 1}},
              BusinessDate : Dates,
              RunId : {0, 1, 2}, HostId : {0, 1}] :
        js.BusinessDate <= NewDateFromTime(js.JobStatusTimestamp) }

\* the mapper driven without a database
NextMapper ==
    \/ \E js \in MapperJobStatuses : MapDomainToDb(js)
    \/ MapDbToDomain

SpecMapper == Init /\ [][NextMapper]_vars

\* the records and the filter sets of the query-by-any-field runs
QueryRecords ==
    {js \in JobStatuses :
        /\ js.JobStatusCode = 1
        /\ js.JobStatusTimestamp = 2 * DaySeconds + 1
        /\ js.HostId = 0}

QueryProbe ==
    [ApplicationId |-> 1, JobId |-> 1, JobStatusCode |-> 1,
     JobStatusTimestamp |-> 2 * DaySeconds + 1, BusinessDate |-> 2,
     RunId |-> 1, HostId |-> 0]

\* the fields the usability rule looks at, and the others
AnchorFields == {"ApplicationId", "JobId", "JobStatusTimestamp", "BusinessDate"}

OtherFields == JobStatusFields \ AnchorFields

\* every combination of the anchor fields, alone and with the other fields
Filters ==
    {[f \in F \cup G |-> QueryProbe[f]] : F \in SUBSET AnchorFields, G \in {{}, OtherFields}}

\* the adapter with all three reads
NextQuery ==
    \/ Open
    \/ \E js \in QueryRecords : Add(js)
    \/ \E jobId \in JobIds : GetByJobId(jobId)
    \/ \E jobId \in JobIds, busDt \in Dates : GetByJobIdBusinessDate(jobId, busDt)
    \/ \E filter \in Filters : GetByQuery(filter)

SpecQuery == Init /\ [][NextQuery]_vars

(***************************************************************************)
(* Properties.                                                             *)
(***************************************************************************)
\* the last call returned this error code
Failed(code) == err.kind = "CommonError" /\ err.Code = code

\* the step's call returned this error code
FailedNext(code) == err'.kind = "CommonError" /\ err'.Code = code

\* the row a record is stored as, column by column
StoredAs(js) ==
    [c \in ColumnSet |->
        CASE c = "ApplicationId" -> js.ApplicationId
          [] c = "JobId" -> js.JobId
          [] c = "JobStatusCode" -> js.JobStatusCode
          [] c = "JobStatusTimestamp" -> js.JobStatusTimestamp
          [] c = "BusinessDate" -> js.BusinessDate * DaySeconds
          [] c = "RunId" -> js.RunId
          [] c = "HostId" -> js.HostId]

\* two rows agree on every column of a set
Agree(r1, r2, cols) == \A c \in cols : r1[c] = r2[c]

\* the usability rule as the specification words it
RuleHolds(filter) ==
    LET has(f) == f \in DOMAIN filter
    IN  (has("ApplicationId") \/ has("JobId")) /\ (has("JobStatusTimestamp") \/ has("BusinessDate"))

\* the rows of the table the predicate of the last read selects
RowsOfLastRead ==
    CASE op.name = "GetByJobId" -> {r \in table : r["JobId"] = op.jobId}
      [] op.name = "GetByJobIdBusinessDate" ->
            {r \in table : r["JobId"] = op.jobId /\ r["BusinessDate"] = op.busDt * DaySeconds}
      [] op.name = "GetByQuery" ->
            {r \in table : \A f \in DOMAIN op.filter :
                r[f] = (IF f = "BusinessDate" THEN op.filter[f] * DaySeconds ELSE op.filter[f])}
      [] OTHER -> {}

\* the last call was a read whose statement the server ran
ReadRan ==
    /\ op.name \in {"GetByJobId", "GetByJobIdBusinessDate", "GetByQuery"}
    /\ pc = "run"
    /\ calls = <<"Query">>
    /\ fault \in {"none", "cursor"}

\* a row rows.Scan and NewJobStatus both accept
Convertible(r) ==
    /\ \A c \in ColumnSet : r[c] # Null
    /\ r["JobStatusCode"] \in ValidJobStatusCodes

\* C1: a filter set is rejected with InvalidQueryError exactly when it fails
\* (applicationId or jobId) and (jobStatusTimestamp or businessDate); every
\* other filter set is accepted and its query is issued
C1_UsabilityRule ==
    op.name = "GetByQuery" =>
        /\ Failed(ErrcdRepoInvalidQuery) <=> ~RuleHolds(op.filter)
        /\ RuleHolds(op.filter) => calls = <<"Query">>

C1_Witness ==
    /\ op.name = "GetByQuery"
    /\ DOMAIN op.filter = {"JobId", "BusinessDate"}
    /\ err = NilError
    /\ Len(ret) > 0

\* C2: a GetByQuery call whose filter set fails the usability rule returns
\* InvalidQueryError and no records, makes no call on the database handle
\* and leaves the table as it was
C2_RejectedBeforeStorage ==
    [][(op'.name = "GetByQuery" /\ ~RuleHolds(op'.filter)) =>
            /\ FailedNext(ErrcdRepoInvalidQuery)
            /\ ret' = <<>>
            /\ calls' = <<>>
            /\ table' = table
            /\ pc' = pc]_vars

C2_Witness ==
    /\ op.name = "GetByQuery"
    /\ DOMAIN op.filter = {"JobId"}
    /\ Failed(ErrcdRepoInvalidQuery)
    /\ DB \in live
    /\ \E r \in table : r["JobId"] = op.filter["JobId"]

FiveColumns == {"ApplicationId", "JobId", "JobStatusCode", "BusinessDate", "JobStatusTimestamp"}

\* C3: the table never holds two rows equal on (ApplicationId, JobId,
\* JobStatusCode, BusinessDate, JobStatusTimestamp); an Add whose record
\* equals a stored row on these columns never returns nil and never changes
\* the table, and when the server runs the insert the error is a
\* DuplicateRowError
C3_DuplicateRejected ==
    [][/\ \A r1, r2 \in table' : Agree(r1, r2, FiveColumns) => r1 = r2
       /\ (/\ op'.name = "Add"
           /\ pc' = "run"
           /\ \E r \in table : Agree(r, StoredAs(op'.jobStatus), FiveColumns)) =>
                /\ err'.kind = "CommonError"
                /\ table' = table
                /\ fault' = "none" => FailedNext(ErrcdRepoDupeRow)]_vars

C3_Witness ==
    /\ op.name = "Add"
    /\ Failed(ErrcdRepoDupeRow)
    /\ StoredAs(op.jobStatus) \in table
    /\ op.jobStatus \in added

FourColumns == {"JobId", "BusinessDate", "JobStatusTimestamp", "ApplicationId"}

C5_AddAllOrNothing ==
    [][(op'.name = "Add" /\ pc' = "run") =>
            /\ err' = NilError <=>
                    /\ StoredAs(op'.jobStatus) \notin table
                    /\ table' = table \cup {StoredAs(op'.jobStatus)}
            /\ err' # NilError =>
                    /\ table' = table
                    /\ err'.kind = "CommonError"
                    /\ err'.Data = [kind |-> "jobStatus", jobStatus |-> op'.jobStatus]]_vars

C5_Witness ==
    /\ op.name = "Add"
    /\ Failed(ErrcdRepoConnException)
    /\ err.Data.jobStatus = op.jobStatus
    /\ table # {}
    /\ StoredAs(op.jobStatus) \notin table

AddedWithJobId(jobId) == {js \in added : js.JobId = jobId}

\* C7: when the table holds exactly the rows of the records Add returned
\* nil for, a GetByJobId(j) the server ran to the end of its result returns
\* no error and exactly the added records with JobId j, each once; and no
\* GetByJobId changes the table
C7_GetByKeyReturnsAdded ==
    [][op'.name = "GetByJobId" =>
            /\ table' = table
            /\ added' = added
            /\ (/\ pc' = "run"
                /\ fault' = "none"
                /\ table = {StoredAs(js) : js \in added}) =>
                    /\ err' = NilError
                    /\ Len(ret') = Cardinality(AddedWithJobId(op'.jobId))
                    /\ {ret'[i] : i \in 1..Len(ret')} = AddedWithJobId(op'.jobId)]_vars

C7_Witness ==
    /\ op.name = "GetByJobId"
    /\ fault = "none"
    /\ err = NilError
    /\ Len(ret) = 1
    /\ ret[1].RunId # 0
    /\ ret[1] \in added
    /\ \E js \in added : js.JobId # op.jobId

\* C8: a read never returns records together with an error; when the
\* server ran the statement to the end of its result and a selected row
\* cannot be converted, the read returns an error and no record, and when it
\* returns no error it returns one record per selected row
C8_NoPartialResults ==
    /\ (op.name \in {"GetByJobId", "GetByJobIdBusinessDate", "GetByQuery"} /\ err # NilError)
            => ret = <<>>
    /\ (ReadRan /\ fault = "none") =>
            /\ (\E r \in RowsOfLastRead : ~Convertible(r)) =>
                    (err.kind = "CommonError" /\ ret = <<>>)
            /\ err = NilError => Len(ret) = Cardinality(RowsOfLastRead)

C8_Witness ==
    /\ ReadRan
    /\ fault = "none"
    /\ op.name = "GetByJobId"
    /\ \E r \in RowsOfLastRead : ~Convertible(r)
    /\ \E r \in RowsOfLastRead : Convertible(r)
    /\ err.kind = "CommonError"
    /\ ret = <<>>

\* C9: mapping a valid record to its row and the row back succeeds and gives
\* the record back, equal in all seven fields
C9_RoundTrip ==
    conv.stage = "domain" =>
        /\ conv.out.err = NilError
        /\ \A f \in JobStatusFields : conv.out.jobStatus[f] = conv.jobStatus[f]

C9_Witness ==
    /\ conv.stage = "domain"
    /\ conv.out.jobStatus = conv.jobStatus
    /\ conv.jobStatus.RunId # 0
    /\ conv.jobStatus.HostId = 0
    /\ conv.jobStatus.BusinessDate * DaySeconds + DaySeconds <= conv.jobStatus.JobStatusTimestamp

ColumnOrder ==
    <<"ApplicationId", "JobId", "JobStatusCode", "JobStatusTimestamp",
      "BusinessDate", "RunId", "HostId">>

StorageFailures == {"pg23505", "pg23502", "connection", "other", "closed"}

\* the kinds a storage-call failure classifies into
StorageKinds == {ErrcdRepoDupeRow, ErrcdRepoConnException, ErrcdRepoOther}

\* the last call was an Add or a fixed-predicate read whose storage call failed
StorageCallFailed ==
    /\ op.name \in {"Add", "GetByJobId", "GetByJobIdBusinessDate"}
    /\ err.kind = "CommonError"
    /\ err.Wraps = <<>>
    /\ err.Err.kind = "raw"
    /\ err.Err.name \in StorageFailures

\* C11: every storage-call failure classifies into exactly one of
\* DuplicateRowError (unique-constraint violation), ConnectionExceptionError
\* (connection failure) and RepoOtherError (every other driver error), and
\* the error Add, GetByJobId and GetByJobIdBusinessDate return for a failed
\* storage call carries that kind
C11_ClassificationTotal ==
    /\ \A name \in StorageFailures :
            /\ PgErrToCommon(RawError(name)) \in StorageKinds
            /\ PgErrToCommon(RawError(name)) = ErrcdRepoDupeRow <=> name = "pg23505"
            /\ PgErrToCommon(RawError(name)) = ErrcdRepoConnException <=> name = "connection"
    /\ (op.name \in {"Add", "GetByJobId", "GetByJobIdBusinessDate"}
            /\ pc = "run" /\ fault \in CallFaults \cup {"closed"}) => StorageCallFailed
    /\ StorageCallFailed =>
            err.Code = CASE err.Err.name = "pg23505" -> ErrcdRepoDupeRow
                         [] err.Err.name = "connection" -> ErrcdRepoConnException
                         [] OTHER -> ErrcdRepoOther

C11_Witness ==
    /\ StorageCallFailed
    /\ op.name = "GetByJobIdBusinessDate"
    /\ err.Err.name = "connection"
    /\ err.Code = ErrcdRepoConnException
    /\ table # {}

(***************************************************************************)
(* The error helpers on their own: an error is classified once and then    *)
(* bubbles up through callers that wrap it.                                *)
(***************************************************************************)
\* the functions that construct and wrap errors
Callers == {"dbToDomain", "rowsToDomain", "GetByJobId", NoCaller}

\* somebody classifies a failure: NewCommonError(err, code, data)
Classify(caller, name, code, data) ==
    /\ op.name = "NewRepoDB"
    /\ op' = [name |-> "NewCommonError", caller |-> caller, err |-> RawError(name),
              code |-> code, data |-> data]
    /\ err' = NewCommonError(caller, RawError(name), code, data)
    /\ UNCHANGED <<DSN, DB, live, opens, table, added, ret, calls, fault, pc, conv, inflight, boot>>

\* a caller passes the error on: return WrapError(err)
Propagate(caller) ==
    /\ op.name \in {"NewCommonError", "WrapError"}
    /\ err.kind = "CommonError"
    /\ Len(err.Wraps) < MaxWraps
    /\ op' = [name |-> "WrapError", caller |-> caller]
    /\ err' = WrapError(caller, err)
    /\ UNCHANGED <<DSN, DB, live, opens, table, added, ret, calls, fault, pc, conv, inflight, boot>>

NextErrors ==
    \/ \E caller \in Callers, name \in {"scan", "connection", "other"},
          code \in {ErrcdRepoScan, ErrcdRepoConnException, ErrcdRepoOther},
          data \in {NoData, RowsData, JobIdData(1)} :
            Classify(caller, name, code, data)
    \/ \E caller \in Callers : Propagate(caller)

SpecErrors == Init /\ [][NextErrors]_vars

\* the records of the runs that open and close the adapter
LifecycleRecords == {js \in JobStatuses : js.JobStatusCode = 1 /\ js.BusinessDate = 1}

\* the filter sets of the lifecycle runs: those over the job id and the business date
LifecycleFilters == {f \in Filters : DOMAIN f \subseteq {"JobId", "BusinessDate"}}

\* the adapter with its connection opened and closed while it is used
NextLifecycle ==
    \/ Open
    \/ Close
    \/ \E js \in LifecycleRecords : Add(js)
    \/ \E jobId \in JobIds : GetByJobId(jobId)
    \/ \E jobId \in JobIds, busDt \in Dates : GetByJobIdBusinessDate(jobId, busDt)
    \/ \E filter \in LifecycleFilters : GetByQuery(filter)
    \/ \E row \in OutOfBandRows : OutOfBandInsert(row)

SpecLifecycle == Init /\ [][NextLifecycle]_vars

RECURSIVE AsCommonError(_)
\* errors.As(err, &ce): the first CommonError on the Unwrap chain of err
AsCommonError(e) ==
    IF e.kind = "CommonError" /\ e.Wraps = <<>> THEN e
    ELSE IF e.kind \in {"nil", "raw"} THEN NilError
    ELSE AsCommonError(Unwrap(e))

RECURSIVE Provenance(_)
\* the provenance an error prints: the wrap sites from the outermost to the
\* innermost, then the origin of the CommonError
Provenance(e) ==
    IF e.kind = "CommonError" /\ e.Wraps = <<>> THEN <<e.Origin>>
    ELSE IF e.kind = "CommonError" THEN <<Head(e.Wraps)>> \o Provenance(Unwrap(e))
    ELSE IF e.kind = "wrapped" THEN <<e.Site>> \o Provenance(Unwrap(e))
    ELSE <<>>

\* C12: each WrapError of a classified error gives an error whose Unwrap is
\* the error wrapped, whose CommonError (Code, Data, Err, origin) is the one
\* of the error wrapped, and whose provenance is the new wrap site followed
\* by the provenance of the error wrapped; so after n wraps the chain lists
\* the n sites, outermost first, then the origin
C12_WrapKeepsClassified ==
    [][op'.name = "WrapError" =>
            /\ Unwrap(err') = err
            /\ AsCommonError(err') = AsCommonError(err)
            /\ AsCommonError(err').kind = "CommonError"
            /\ Provenance(err') = <<WrapSite(op'.caller)>> \o Provenance(err)
            /\ Len(Provenance(err')) = Len(Provenance(err)) + 1]_vars

C12_Witness ==
    /\ op.name = "WrapError"
    /\ Provenance(err) = <<"GetByJobId", "rowsToDomain", "dbToDomain">>
    /\ AsCommonError(err).Code = ErrcdRepoScan
    /\ AsCommonError(err).Data = RowsData
    /\ Unwrap(Unwrap(err)) = AsCommonError(err)

\* C13: Open without a connection target returns NoDsnError and makes no
\* connection attempt; Open whose connection attempt fails returns
\* ConnectionExceptionError; a failing Open leaves the handle as it was, and
\* the handle becomes the new connection exactly when Open returns no error
C13_OpenOutcomes ==
    [][op'.name = "Open" =>
            /\ DSN = "" => (FailedNext(ErrcdRepoNoDsn) /\ calls' = <<>>)
            /\ DSN = "bad" => (FailedNext(ErrcdRepoConnException) /\ calls' = <<"sql.Open">>)
            /\ err' # NilError =>
                    /\ DSN \in {"", "bad"}
                    /\ DB' = DB
                    /\ live' = live
            /\ err' = NilError <=> (DB' # DB /\ DB' \in live' /\ DB' \notin live)]_vars

C13_Witness ==
    /\ op.name = "Open"
    /\ Failed(ErrcdRepoConnException)
    /\ calls = <<"sql.Open">>
    /\ DB = 0
    /\ opens = 2

\* C14: Close on an adapter whose handle was never set (no Open has
\* succeeded) returns no error, makes no call on the connection and changes
\* nothing of the adapter or the database
C14_CloseNeverOpened ==
    [][(op'.name = "Close" /\ DB = 0) =>
            /\ err' = NilError
            /\ calls' = <<>>
            /\ pc' = pc
            /\ UNCHANGED <<DSN, DB, live, opens, table, added>>]_vars

C14_Witness ==
    /\ op.name = "Close"
    /\ DB = 0
    /\ opens > 0
    /\ err = NilError
    /\ calls = <<>>
    /\ pc = "run"

\* the closed taxonomy of error kinds
Taxonomy ==
    {ErrcdRepoConnException, ErrcdRepoScan, ErrcdRepoDupeRow, ErrcdRepoInvalidQuery,
     ErrcdRepoOther, ErrcdRepoNoDsn}

\* the operations a caller of the adapter can invoke
PublicOperations ==
    {"Open", "Close", "Add", "GetByJobId", "GetByJobIdBusinessDate", "GetByQuery"}

\* C15: every error a public operation returns is a CommonError, bare or
\* behind WrapError layers, whose Code is one of the closed taxonomy; no raw
\* driver error and no other kind reaches the caller
C15_ClosedTaxonomy ==
    (op.name \in PublicOperations /\ err # NilError) =>
        /\ AsCommonError(err).kind = "CommonError"
        /\ AsCommonError(err).Code \in Taxonomy

\* the operations that run a statement
StatementOperations == {"Add", "GetByJobId", "GetByJobIdBusinessDate", "GetByQuery"}

\* C16: a call of Add, GetByJobId, GetByJobIdBusinessDate or GetByQuery
\* issues at most one statement (one Exec or one Query), and a call whose
\* statement failed returns the classified failure having issued only that one
C16_NoRetry ==
    op.name \in StatementOperations =>
        /\ Len(calls) <= 1
        /\ (pc = "run" /\ fault \in CallFaults \cup {"closed"}) =>
                /\ calls \in {<<"Exec">>, <<"Query">>}
                /\ err.kind = "CommonError"
                /\ err.Code \in StorageKinds
                /\ ret = <<>>

C16_Witness ==
    /\ op.name = "GetByJobId"
    /\ fault = "other"
    /\ calls = <<"Query">>
    /\ Failed(ErrcdRepoOther)
    /\ \E r \in table : r["JobId"] = op.jobId

(***************************************************************************)
(* The Predicate Builder on its own, as a test drives it.                  *)
(***************************************************************************)
\* the orders in which a caller can fill a filter set of up to
\* MaxFilterFields fields, each field with its value of QueryProbe
FilterEntries ==
    UNION {{[i \in 1..n |-> [field |-> s[i], value |-> QueryProbe[s[i]]]] :
                s \in {t \in [1..n -> JobStatusFields] :
                            \A i, j \in 1..n : t[i] = t[j] => i = j}} :
           n \in 0..MaxFilterFields}

\* build the predicate of a filter set
Build(entries) ==
    /\ conv.stage = "idle"
    /\ conv' = [stage |-> "built", entries |-> entries, out |-> buildWhereOfEntries(entries)]
    /\ UNCHANGED repoVars

\* build once more from the same filter set, filled in any order
Rebuild(entries) ==
    /\ conv.stage = "built"
    /\ FilterSetOf(entries) = FilterSetOf(conv.entries)
    /\ conv' = [stage |-> "rebuilt", entries |-> conv.entries, out |-> conv.out,
                again |-> entries, outAgain |-> buildWhereOfEntries(entries)]
    /\ UNCHANGED repoVars

NextBuilder ==
    \/ \E entries \in FilterEntries : Build(entries)
    \/ \E entries \in FilterEntries : Rebuild(entries)

SpecBuilder == Init /\ [][NextBuilder]_vars

threadVars == <<DSN, DB, live, opens, op, ret, err, calls, fault, conv, boot>>

\* a caller enters Add
CallAdd(t, jobStatus) ==
    /\ pc = "run"
    /\ inflight[t].pc = "idle"
    /\ inflight' = [inflight EXCEPT ![t] =
                        [pc |-> "exec", name |-> "Add", jobStatus |-> jobStatus]]
    /\ UNCHANGED <<threadVars, table, added, pc>>

\* a caller enters GetByJobId
CallGetByJobId(t, jobId) ==
    /\ pc = "run"
    /\ inflight[t].pc = "idle"
    /\ inflight' = [inflight EXCEPT ![t] =
                        [pc |-> "exec", name |-> "GetByJobId", jobId |-> jobId]]
    /\ UNCHANGED <<threadVars, table, added, pc>>

\* what a caller holds when its call has returned
Returned(call, f, e, r) == [call EXCEPT !.pc = "done"] @@ [fault |-> f, err |-> e, ret |-> r]

\* Add, from repo.DB.Exec to the return
ExecAdd(t) ==
    /\ pc = "run"
    /\ inflight[t].pc = "exec"
    /\ inflight[t].name = "Add"
    /\ LET call == inflight[t]
           jobStatus == call.jobStatus
       IN  IF DB = 0
           THEN pc' = "panic" /\ UNCHANGED <<inflight, table, added>>
           ELSE /\ pc' = pc
                /\ IF DB \notin live
                   THEN /\ inflight' = [inflight EXCEPT ![t] =
                                Returned(call, "closed",
                                         AddError(RawError("closed"), jobStatus), <<>>)]
                        /\ UNCHANGED <<table, added>>
                   ELSE \/ \E f \in CallFaults :
                            /\ inflight' = [inflight EXCEPT ![t] =
                                    Returned(call, f, AddError(RawError(f), jobStatus), <<>>)]
                            /\ UNCHANGED <<table, added>>
                        \/ LET row == InsertedRow(sqlInsertColumns, sqlInsertValues,
                                                  domainToDb(jobStatus))
                               res == PgInsert(table, row)
                           IN  /\ table' = res.table
                               /\ IF res.sqlstate # ""
                                  THEN /\ inflight' = [inflight EXCEPT ![t] =
                                            Returned(call, "none",
                                                AddError(RawError(res.sqlstate), jobStatus),
                                                <<>>)]
                                       /\ UNCHANGED added
                                  ELSE /\ inflight' = [inflight EXCEPT ![t] =
                                            Returned(call, "none", NilError, <<>>)]
                                       /\ added' = added \cup {jobStatus}
    /\ UNCHANGED threadVars

\* GetByJobId, repo.DB.Query: the server runs the select on the table as it
\* is at this moment and hands a cursor over the rows it selected
QueryGetByJobId(t) ==
    /\ pc = "run"
    /\ inflight[t].pc = "exec"
    /\ inflight[t].name = "GetByJobId"
    /\ LET call == inflight[t]
           data == JobIdData(call.jobId)
       IN  IF DB = 0
           THEN pc' = "panic" /\ UNCHANGED inflight
           ELSE /\ pc' = pc
                /\ IF DB \notin live
                   THEN inflight' = [inflight EXCEPT ![t] =
                            Returned(call, "closed",
                                NewCommonError("GetByJobId", RawError("closed"),
                                    PgErrToCommon(RawError("closed")), data), <<>>)]
                   ELSE \/ \E f \in CallFaults :
                            inflight' = [inflight EXCEPT ![t] =
                                Returned(call, f,
                                    NewCommonError("GetByJobId", RawError(f),
                                        PgErrToCommon(RawError(f)), data), <<>>)]
                        \/ \E f \in {"none", "cursor"} :
                           \E rows \in Cursors(sqlWhereJobId, <<call.jobId>>, f) :
                            inflight' = [inflight EXCEPT ![t] =
                                [call EXCEPT !.pc = "rows"] @@ [fault |-> f, rows |-> rows]]
    /\ UNCHANGED <<threadVars, table, added>>

\* GetByJobId, from rowsToDomain to the return
ConvertGetByJobId(t) ==
    /\ pc = "run"
    /\ inflight[t].pc = "rows"
    /\ LET call == inflight[t]
           all == rowsToDomain(call.rows)
           back == [pc |-> "exec", name |-> call.name, jobId |-> call.jobId]
       IN  inflight' = [inflight EXCEPT ![t] =
                IF all.err.kind # "nil"
                THEN Returned(back, call.fault, WrapError("GetByJobId", all.err), <<>>)
                ELSE Returned(back, call.fault, NilError, all.data)]
    /\ UNCHANGED <<threadVars, table, added, pc>>

\* the records the concurrent callers add: two with the same key that
\* differ in JobStatusCode, and one with another key
ConcurrentRecords ==
    {js \in JobStatuses : js.JobId = 1 /\ (js.BusinessDate = 1 \/ js.JobStatusCode = 1)}

\* callers that use the adapter at the same time; Open runs before they start
NextConcurrent ==
    \/ (\A t \in Threads : inflight[t].pc = "idle") /\ Open
    \/ \E t \in Threads, js \in ConcurrentRecords : CallAdd(t, js)
    \/ \E t \in Threads : CallGetByJobId(t, 1)
    \/ \E t \in Threads : ExecAdd(t)
    \/ \E t \in Threads : QueryGetByJobId(t)
    \/ \E t \in Threads : ConvertGetByJobId(t)

SpecConcurrent == Init /\ [][NextConcurrent]_vars

\* the callers whose call has returned
Done == {t \in Threads : inflight[t].pc = "done"}

\* no call is in flight
Quiescent == \A t \in Threads : inflight[t].pc \in {"idle", "done"}

\* the rows a sequence of records stands for
RowsOf(records) == {StoredAs(records[k]) : k \in 1..Len(records)}

RECURSIVE SerialRun(_, _, _)
\* the calls that returned, run one after the other in this order from the
\* table tbl, return what they returned and end with the table as it is
SerialRun(order, i, tbl) ==
    IF i > Len(order)
    THEN tbl = table
    ELSE LET call == inflight[order[i]]
         IN  IF call.name = "Add"
             THEN LET row == StoredAs(call.jobStatus)
                      collides == \E r \in tbl : Agree(r, row, FourColumns)
                  IN  IF call.err = NilError
                      THEN ~collides /\ SerialRun(order, i + 1, tbl \cup {row})
                      ELSE /\ call.fault = "none" =>
                                (collides /\ call.err.Code = ErrcdRepoDupeRow)
                           /\ SerialRun(order, i + 1, tbl)
             ELSE LET selected == {r \in tbl : r["JobId"] = call.jobId}
                  IN  /\ call.fault = "none" =>
                            /\ call.err = NilError
                            /\ Len(call.ret) = Cardinality(selected)
                            /\ RowsOf(call.ret) = selected
                      /\ call.fault = "cursor" =>
                            (call.err = NilError /\ RowsOf(call.ret) \subseteq selected)
                      /\ call.fault \in CallFaults =>
                            (call.err # NilError /\ call.ret = <<>>)
                      /\ SerialRun(order, i + 1, tbl)

\* the callers whose Add the server ran with a record of the key of js
RanAddOfKey(js) ==
    {t \in Done : /\ inflight[t].name = "Add"
                  /\ inflight[t].fault = "none"
                  /\ Agree(StoredAs(inflight[t].jobStatus), StoredAs(js), FourColumns)}

\* C19: when the calls concurrent callers issued on an opened adapter have
\* all returned, their results and the table are those of running the same
\* calls one after the other in some order; of the Adds the server ran with
\* one key exactly one returned nil, every other returned DuplicateRowError,
\* and the table holds one row of that key
C19_ConcurrentCallsSerialize ==
    (Quiescent /\ pc = "run") =>
        /\ \E order \in Orderings(Done) : SerialRun(order, 1, {})
        /\ \A t \in Done :
                (inflight[t].name = "Add" /\ inflight[t].fault = "none") =>
                    LET same == RanAddOfKey(inflight[t].jobStatus)
                    IN  /\ Cardinality({u \in same : inflight[u].err = NilError}) = 1
                        /\ \A u \in same :
                                \/ inflight[u].err = NilError
                                \/ inflight[u].err.Code = ErrcdRepoDupeRow
                        /\ Cardinality({r \in table :
                                Agree(r, StoredAs(inflight[t].jobStatus), FourColumns)}) = 1

C19_Witness ==
    /\ Done = Threads
    /\ \E t, u, v \in Threads :
            /\ inflight[t].name = "Add" /\ inflight[t].err = NilError
            /\ inflight[u].name = "Add" /\ inflight[u].fault = "none"
            /\ inflight[u].err # NilError
            /\ inflight[u].jobStatus.JobStatusCode # inflight[t].jobStatus.JobStatusCode
            /\ inflight[v].name = "GetByJobId" /\ inflight[v].fault = "none"
            /\ Len(inflight[v].ret) = 1
    /\ Cardinality(table) = 1

\* C20: every error GetByJobId(jobId) returns is a CommonError, bare or
\* wrapped, whose Data is the key {jobId}, and every error
\* GetByJobIdBusinessDate(jobId, busDt) returns carries {jobId, busDt},
\* whether the query failed, a row could not be scanned or a row failed the
\* domain validation
C20_ReadErrorsCarryKey ==
    /\ (op.name = "GetByJobId" /\ err # NilError) =>
            /\ AsCommonError(err).kind = "CommonError"
            /\ AsCommonError(err).Data = JobIdData(op.jobId)
    /\ (op.name = "GetByJobIdBusinessDate" /\ err # NilError) =>
            /\ AsCommonError(err).kind = "CommonError"
            /\ AsCommonError(err).Data = JobIdBusDtData(op.jobId, op.busDt)

\* C21: a GetByJobId or GetByJobIdBusinessDate whose cursor fails while its
\* rows are read returns an error and no records; it never returns the rows
\* read so far with no error
C21_CursorFailureIsAnError ==
    (/\ op.name \in {"GetByJobId", "GetByJobIdBusinessDate"}
     /\ pc = "run"
     /\ fault = "cursor") =>
        /\ err # NilError
        /\ AsCommonError(err).kind = "CommonError"
        /\ ret = <<>>

\* a row with a NULL column
HasNull(r) == \E c \in ColumnSet : r[c] = Null

\* C22: a row Scan cannot read (a NULL column, or six columns where seven
\* are scanned) makes dbToDomain fail with a ScanError it creates itself,
\* without going on to NewJobStatus; a read the server ran to the end whose
\* only unconvertible rows are such rows returns that ScanError and no record
C22_ScanFailureIsScanError ==
    /\ \A r \in table :
            LET short == dbToDomain(SubSeq(Project(r, sqlSelect), 1, 6))
            IN  /\ short.err.kind = "CommonError"
                /\ short.err.Code = ErrcdRepoScan
                /\ short.err.Origin = "dbToDomain"
    /\ (/\ ReadRan
        /\ fault = "none"
        /\ \E r \in RowsOfLastRead : HasNull(r)
        /\ \A r \in RowsOfLastRead : HasNull(r) \/ Convertible(r)) =>
            /\ ret = <<>>
            /\ AsCommonError(err).kind = "CommonError"
            /\ AsCommonError(err).Code = ErrcdRepoScan
            /\ AsCommonError(err).Err = RawError("scan")
            /\ AsCommonError(err).Origin = "dbToDomain"

C22_Witness ==
    /\ ReadRan
    /\ fault = "none"
    /\ op.name = "GetByJobIdBusinessDate"
    /\ \E r \in RowsOfLastRead : HasNull(r)
    /\ AsCommonError(err).Code = ErrcdRepoScan
    /\ Provenance(err) = <<"GetByJobIdBusinessDate", "rowsToDomain", "dbToDomain">>

\* a record passes the invariants of the domain
ValidRecord(js) ==
    isUsable([AppId |-> js.ApplicationId, JobId |-> js.JobId, JobSt |-> js.JobStatusCode,
              JobTs |-> js.JobStatusTimestamp, BusDt |-> js.BusinessDate,
              RunId |-> js.RunId, HstId |-> js.HostId])

\* C23: every record a read returns passes the invariants NewJobStatus
\* enforces; a read the server ran to the end that selects a row Scan can
\* read but whose values fail an invariant (an unknown status code), and no
\* row Scan cannot read, returns no record and the error of NewJobStatus,
\* whose kind is PropsError and not ScanError
C23_ReadsValidate ==
    /\ op.name \in {"GetByJobId", "GetByJobIdBusinessDate", "GetByQuery"} =>
            \A i \in 1..Len(ret) : ValidRecord(ret[i])
    /\ (/\ ReadRan
        /\ fault = "none"
        /\ \E r \in RowsOfLastRead : ~HasNull(r) /\ ~Convertible(r)
        /\ \A r \in RowsOfLastRead : ~HasNull(r)) =>
            /\ ret = <<>>
            /\ AsCommonError(err).kind = "CommonError"
            /\ AsCommonError(err).Code = ErrcdDomainProps
            /\ AsCommonError(err).Origin = "NewJobStatus"

C23_Witness ==
    /\ ReadRan
    /\ fault = "none"
    /\ op.name = "GetByJobId"
    /\ \E r \in RowsOfLastRead : r["JobStatusCode"] \in UnknownStatusCodes
    /\ AsCommonError(err).Code = ErrcdDomainProps
    /\ ret = <<>>
    /\ Cardinality(RowsOfLastRead) = 1

\* the filter set {jobId: j, businessDate: d}
KeyAndDateFilter(j, d) == [f \in {"JobId", "BusinessDate"} |-> IF f = "JobId" THEN j ELSE d]

C25_OnlyOpenChangesHandle ==
    [][/\ (DB' # DB \/ DSN' # DSN) => op'.name = "Open"
       /\ op'.name \in {"Add", "GetByJobId", "GetByJobIdBusinessDate", "GetByQuery", "Close"}
            => (DB' = DB /\ DSN' = DSN)]_vars

C25_Witness ==
    /\ op.name = "Close"
    /\ calls = <<"Close">>
    /\ DB # 0
    /\ DB \notin live

\* C26: Open and Close pair up: every connection a successful Open acquired
\* is reachable through the handle, and once Close has returned none of
\* them is open
C26_OpenCloseScoped ==
    /\ \A h \in live : h = DB
    /\ op.name = "Close" => live = {}

\* C27: in every lifecycle state Add, GetByJobId and GetByJobIdBusinessDate
\* return success or a classified error and never abort the process, and
\* without an open connection they return an error
C27_CallsAlwaysReturn ==
    /\ pc = "run"
    /\ op.name \in {"Add", "GetByJobId", "GetByJobIdBusinessDate"} =>
            /\ err.kind \in {"nil", "CommonError"}
            /\ DB \notin live => err.kind = "CommonError"

\* the rows Add has written: those with the key of a record Add has stored
\* (the key is unique, so no other client's row shares it)
WrittenByAdd(r) == \E js \in added : Agree(r, StoredAs(js), PrimaryKey)

\* C28: a row Add has written has no NULL column, also when the record's run
\* id or host id is absent (they are stored as empty strings), and dbToDomain
\* converts it; a read the server ran to the end over such rows only returns
\* no error
C28_AddedRowsDecode ==
    /\ \A r \in table :
            WrittenByAdd(r) =>
                /\ ~HasNull(r)
                /\ dbToDomain(Project(r, sqlSelect)).err = NilError
                /\ \E js \in added : r = StoredAs(js)
    /\ (/\ ReadRan
        /\ fault = "none"
        /\ \A r \in RowsOfLastRead : WrittenByAdd(r)) =>
            err = NilError

C28_Witness ==
    /\ ReadRan
    /\ fault = "none"
    /\ err = NilError
    /\ \E i \in 1..Len(ret) :
            /\ ret[i] \in added
            /\ ret[i].RunId = 0
            /\ ret[i].HostId = 0
            /\ StoredAs(ret[i]) \in table

(***************************************************************************)
(* modinit.Init: build the repo, open it, build the use cases and the      *)
(* controllers on top of it.                                               *)
(***************************************************************************)
\* the repo value Init holds in dbRepo
RepoRef == [kind |-> "repoDB"]

\* jobStatus.NewUseCases(repo): the use cases keep the repo they are given
NewUseCases(repo) == [kind |-> "UseCases", repo |-> repo]

\* jobStatus.NewControllers(uc, logger): the controllers keep the use cases
NewControllers(uc) == [kind |-> "Controllers", uc |-> uc]

\* logger.Info / logger.Error: the message is appended to the log
Logged(msg) == Append(boot.log, msg)

\* Init up to the call of Open: log, NewRepoDB(pgUrl), log
InitCreateRepo ==
    /\ boot.pc = "start"
    /\ boot' = [boot EXCEPT !.log = boot.log \o <<"create repo", "open database">>,
                            !.pc = "open"]
    /\ UNCHANGED <<DSN, DB, live, opens, table, added, op, ret, err, calls, fault, pc,
                   conv, inflight>>

\* err := dbRepo.Open()
InitOpen ==
    /\ boot.pc = "open"
    /\ op.name = "NewRepoDB"
    /\ Open

\* an Init that goes on to the use cases whatever Open returned
InitOpened_IgnoreError ==
    /\ boot.pc = "open"
    /\ op.name = "Open"
    /\ boot' = [boot EXCEPT !.log = Logged("create usecases"),
                            !.uc = NewUseCases(RepoRef),
                            !.pc = "usecases"]
    /\ UNCHANGED <<DSN, DB, live, opens, table, added, op, ret, err, calls, fault, pc,
                   conv, inflight>>

\* Init after Open has returned: return its error, or build the use cases
InitOpened ==
    /\ boot.pc = "open"
    /\ op.name = "Open"
    /\ IF err # NilError
       THEN boot' = [boot EXCEPT !.log = Logged("database connection failed"),
                                 !.ret = [repo |-> NilRef, uc |-> NilRef, ctrl |-> NilRef,
                                          err |-> err],
                                 !.pc = "done"]
       ELSE boot' = [boot EXCEPT !.log = Logged("create usecases"),
                                 !.uc = NewUseCases(RepoRef),
                                 !.pc = "usecases"]
    /\ UNCHANGED <<DSN, DB, live, opens, table, added, op, ret, err, calls, fault, pc,
                   conv, inflight>>

\* Init from the controllers to its return
InitControllers ==
    /\ boot.pc = "usecases"
    /\ LET ctrl == NewControllers(boot.uc)
       IN  boot' = [boot EXCEPT !.log = Logged("create controllers"),
                                !.ctrl = ctrl,
                                !.ret = [repo |-> RepoRef, uc |-> boot.uc, ctrl |-> ctrl,
                                         err |-> NilError],
                                !.pc = "done"]
    /\ UNCHANGED <<DSN, DB, live, opens, table, added, op, ret, err, calls, fault, pc,
                   conv, inflight>>

\* the use cases Init returned reach the repo they were built on
Serving ==
    /\ boot.pc = "done"
    /\ boot.ret.uc # NilRef
    /\ boot.ret.uc.repo = RepoRef

\* the server from its start: Init, then the use cases at work
NextInit ==
    \/ InitCreateRepo
    \/ InitOpen
    \/ InitOpened
    \/ InitControllers
    \/ Serving /\ \E js \in JobStatuses : Add(js)
    \/ Serving /\ \E jobId \in JobIds : GetByJobId(jobId)

SpecInit == Init /\ [][NextInit]_vars

\* the messages of an Init that succeeds, and of one whose Open fails
InitLogOk == <<"create repo", "open database", "create usecases", "create controllers">>

InitLogFailed == <<"create repo", "open database", "database connection failed">>

\* s is an initial segment of t
IsPrefix(s, t) == Len(s) <= Len(t) /\ SubSeq(t, 1, Len(s)) = s

\* C29: Init creates the repo, opens it, creates the use cases and then the
\* controllers, in that order; when Open fails Init returns (nil, nil, nil,
\* err) with the error of Open and creates no use cases and no controllers;
\* it returns a repo, use cases and controllers exactly when Open succeeded,
\* and then the use cases are bound to the opened repo
C29_InitOrder ==
    /\ IsPrefix(boot.log, InitLogOk) \/ IsPrefix(boot.log, InitLogFailed)
    /\ boot.uc # NilRef => (DB \in live /\ "open database" = boot.log[2])
    /\ boot.ctrl # NilRef => (boot.uc # NilRef /\ boot.ctrl.uc = boot.uc)
    /\ boot.pc = "done" =>
            IF DB \in live
            THEN /\ boot.ret.err = NilError
                 /\ boot.ret.repo = RepoRef
                 /\ boot.ret.uc = boot.uc
                 /\ boot.ret.uc.repo = boot.ret.repo
                 /\ boot.ret.ctrl = boot.ctrl
                 /\ boot.ret.ctrl.uc = boot.ret.uc
                 /\ boot.log = InitLogOk
            ELSE /\ boot.ret.repo = NilRef
                 /\ boot.ret.uc = NilRef
                 /\ boot.ret.ctrl = NilRef
                 /\ boot.ret.err = err
                 /\ op.name = "Open"
                 /\ err.kind = "CommonError"
                 /\ err.Origin = "Open"
                 /\ boot.uc = NilRef
                 /\ boot.ctrl = NilRef
                 /\ boot.log = InitLogFailed

C29_Witness ==
    /\ boot.pc = "done"
    /\ DSN = "bad"
    /\ DB = 0
    /\ boot.ret.err.Code = ErrcdRepoConnException
    /\ boot.ret.uc = NilRef

RECURSIVE Is(_, _)
\* errors.Is(err, target): target is on the Unwrap chain of err
Is(e, target) ==
    IF e = target THEN TRUE
    ELSE IF e.kind \in {"nil", "raw"} THEN FALSE
    ELSE Is(Unwrap(e), target)

\* C30: NewCommonError(err, code, data) returns a CommonError whose Code, Err
\* and Data are the arguments and whose Unwrap is err, so errors.Is finds
\* err; without caller information the error has the same Code, Err and Data
\* and empty provenance; a WrapError without caller information still wraps
\* the error it is given, under an "unknown caller" entry
C30_ErrorsKeepTheirCause ==
    [][/\ op'.name = "NewCommonError" =>
            /\ err'.kind = "CommonError"
            /\ err'.Code = op'.code
            /\ err'.Err = op'.err
            /\ err'.Data = op'.data
            /\ Unwrap(err') = op'.err
            /\ Is(err', op'.err)
            /\ err'.Origin = "" <=> op'.caller = NoCaller
            /\ Provenance(err') = <<op'.caller>>
       /\ (op'.name = "WrapError" /\ op'.caller = NoCaller) =>
            /\ Unwrap(err') = err
            /\ Is(err', err)
            /\ Is(err', AsCommonError(err).Err)
            /\ AsCommonError(err') = AsCommonError(err)
            /\ Head(Provenance(err')) = "unknown caller"]_vars

C30_Witness ==
    /\ op.name = "WrapError"
    /\ op.caller = NoCaller
    /\ Provenance(err) = <<"unknown caller", "GetByJobId", "">>
    /\ AsCommonError(err).Code = ErrcdRepoScan
    /\ AsCommonError(err).Data = RowsData
    /\ Is(err, RawError("scan"))

====
